---- MODULE Spec2Model ----
(***************************************************************************)
(* signature_dispatch: a dispatcher holds an ordered list of candidate     *)
(* functions; a call is routed to the first candidate whose signature      *)
(* binds the arguments and whose annotations accept the bound values.      *)
(*                                                                         *)
(* Values are written by their repr ("1", "'x'"), so that the arguments    *)
(* line of the failure message is the text Python would print.             *)
(***************************************************************************)
EXTENDS Integers, Sequences, FiniteSets, TLC

\* heap: the dispatchers made so far, each with its candidates and metadata.
\* locals: the calling frame's f_locals.
\* registered: for each dispatcher, the functions handed to its overload().
\* last: the operation last carried out and what it did.
VARIABLES heap, locals, registered, last

vars == <<heap, locals, registered, last>>

(* ------------------------------ bounds -------------------------------- *)

\* Largest number of candidates registered, over all dispatchers.
MaxCands == 2

\* Largest number of positional arguments of a call.
MaxArgs == 2

(* ------------------------------ values -------------------------------- *)

\* The values a call passes, by repr.
Values == {"1", "'x'"}

\* type(value).__name__
TypeName(v) == IF v = "1" THEN "int" ELSE "str"

\* Keyword arguments: an ordered mapping, as a sequence of (key, value).
KV(k, v) == [k |-> k, v |-> v]

KwargsSet ==
    { <<>>,
      <<KV("a", "1")>>,
      <<KV("a", "'x'")>>,
      <<KV("b", "1")>>,
      <<KV("a", "1"), KV("b", "'x'")>>,
      <<KV("c", "1")>> }

ArgsSet == UNION { [1..n -> Values] : n \in 0..MaxArgs }

(* ---------------------------- parameters ------------------------------ *)

\* inspect.Parameter kinds
POSITIONAL_OR_KEYWORD == "POSITIONAL_OR_KEYWORD"

VAR_POSITIONAL == "VAR_POSITIONAL"

KEYWORD_ONLY == "KEYWORD_ONLY"

VAR_KEYWORD == "VAR_KEYWORD"

\* Parameter.empty, for an annotation or a default that is not declared.
empty == ""

Param(name, kind, annotation, default) ==
    [name |-> name, kind |-> kind, annotation |-> annotation, default |-> default]

\* A function definition: its parameters, its docstring, and whether its
\* body raises TypeError("my error") (test_function_raises_type_error).
Def(params, doc, raises) == [params |-> params, doc |-> doc, raises |-> raises]

F_a == Def(<<Param("a", POSITIONAL_OR_KEYWORD, empty, empty)>>, "a", FALSE)

F_a_b ==
    Def(<<Param("a", POSITIONAL_OR_KEYWORD, empty, empty),
          Param("b", POSITIONAL_OR_KEYWORD, empty, empty)>>, "a, b", FALSE)

F_raises == Def(<<Param("a", POSITIONAL_OR_KEYWORD, empty, empty)>>, "", TRUE)

F_int == Def(<<Param("a", POSITIONAL_OR_KEYWORD, "int", empty)>>, "", FALSE)

F_str == Def(<<Param("a", POSITIONAL_OR_KEYWORD, "str", empty)>>, "", FALSE)

\* A declared default that does not satisfy the declared type.
F_int_default == Def(<<Param("a", POSITIONAL_OR_KEYWORD, "int", "'x'")>>, "", FALSE)

F_var_int == Def(<<Param("a", VAR_POSITIONAL, "int", empty)>>, "", FALSE)

F_var_str == Def(<<Param("a", VAR_POSITIONAL, "str", empty)>>, "", FALSE)

F_var_b ==
    Def(<<Param("a", VAR_POSITIONAL, empty, empty),
          Param("b", KEYWORD_ONLY, empty, empty)>>, "", FALSE)

F_kwonly == Def(<<Param("a", KEYWORD_ONLY, empty, empty)>>, "", FALSE)

F_kw_int == Def(<<Param("a", VAR_KEYWORD, "int", empty)>>, "", FALSE)

F_kwargs == Def(<<Param("kwargs", VAR_KEYWORD, empty, empty)>>, "", FALSE)

F_a_kwargs ==
    Def(<<Param("a", POSITIONAL_OR_KEYWORD, empty, empty),
          Param("kwargs", VAR_KEYWORD, empty, empty)>>, "", FALSE)

\* The definitions a call is dispatched over.
Library ==
    { F_a, F_a_b, F_raises, F_int, F_str, F_int_default, F_var_int, F_var_str,
      F_var_b, F_kwonly, F_kw_int, F_kwargs, F_a_kwargs }

\* The definitions registered where the scope and the registration are studied.
ScopeLibrary == { F_a, F_a_b, F_raises }

\* A function object: a definition under the name it was defined with.
Function(fn, name) == [fn |-> fn, name |-> name]

(* --------------------------- small helpers ---------------------------- *)

Quote(s) == "'" \o s \o "'"

Index(i) == "[" \o ToString(i) \o "]"

RECURSIVE Join(_, _)
Join(sep, strs) ==
    IF strs = <<>> THEN ""
    ELSE IF Len(strs) = 1 THEN strs[1]
    ELSE strs[1] \o sep \o Join(sep, Tail(strs))

HasKey(kwargs, k) == \E i \in 1..Len(kwargs) : kwargs[i].k = k

GetKey(kwargs, k) == kwargs[CHOOSE i \in 1..Len(kwargs) : kwargs[i].k = k].v

\* kwargs.pop(k): the mapping without k, the order of the rest kept.
PopKey(kwargs, k) == SelectSeq(kwargs, LAMBDA e : e.k # k)

(* ------------------- inspect.Signature: str and bind ------------------ *)

\* str(Parameter): the name, ": annotation", the default ("=d", or " = d"
\* after an annotation), and the star of a variadic parameter.
ParamStr(p) ==
    LET annotated == IF p.annotation = empty THEN p.name
                     ELSE p.name \o ": " \o p.annotation
        defaulted == IF p.default = empty THEN annotated
                     ELSE IF p.annotation = empty THEN annotated \o "=" \o p.default
                     ELSE annotated \o " = " \o p.default
    IN  IF p.kind = VAR_POSITIONAL THEN "*" \o defaulted
        ELSE IF p.kind = VAR_KEYWORD THEN "**" \o defaulted
        ELSE defaulted

\* The rendered parameters; a bare "*" goes before the first keyword-only
\* parameter when no variadic-positional parameter came before it.
RECURSIVE ParamStrs(_, _, _)
ParamStrs(params, i, starred) ==
    IF i > Len(params) THEN <<>>
    ELSE LET p == params[i]
             star == p.kind = KEYWORD_ONLY /\ ~starred
             seen == starred \/ p.kind \in {VAR_POSITIONAL, KEYWORD_ONLY}
         IN  (IF star THEN <<"*">> ELSE <<>>)
                 \o <<ParamStr(p)>> \o ParamStrs(params, i + 1, seen)

\* f"{sig}" for sig = inspect.signature(f)
SigStr(f) == "(" \o Join(", ", ParamStrs(f.fn.params, 1, FALSE)) \o ")"

\* One entry of BoundArguments.arguments: the parameter's name, the shape of
\* the bound value (one value, a tuple, a dict) and its items, each with the
\* path typeguard prints for it.
Item(path, v) == [path |-> path, v |-> v]

One(name, v) == [name |-> name, shape |-> "one", items |-> <<Item("", v)>>]

TupleOf(name, vs) ==
    [name |-> name, shape |-> "tuple",
     items |-> [i \in 1..Len(vs) |-> Item(Index(i - 1), vs[i])]]

DictOf(name, kwargs) ==
    [name |-> name, shape |-> "dict",
     items |-> [i \in 1..Len(kwargs) |-> Item("[" \o Quote(kwargs[i].k) \o "]", kwargs[i].v)]]

Rejected(err) == [ok |-> FALSE, err |-> err, arguments |-> <<>>, next |-> 0]

Bound(arguments, next) == [ok |-> TRUE, err |-> "", arguments |-> arguments, next |-> next]

\* The first loop without its look at the keyword values: a parameter passed
\* by name is taken for missing, and one passed twice goes unnoticed.
RECURSIVE BindPositionalOnly(_, _, _, _, _)
BindPositionalOnly(params, args, kwargs, i, arguments) ==
    IF i > Len(args)
    THEN IF i > Len(params) THEN Bound(arguments, i)
         ELSE LET param == params[i]
              IN  IF param.kind = VAR_POSITIONAL THEN Bound(arguments, i + 1)
                  ELSE IF param.kind = VAR_KEYWORD \/ param.default # empty
                       THEN Bound(arguments, i)
                  ELSE Rejected("missing a required argument: " \o Quote(param.name))
    ELSE IF i > Len(params) THEN Rejected("too many positional arguments")
         ELSE LET param == params[i]
              IN  IF param.kind \in {VAR_KEYWORD, KEYWORD_ONLY}
                  THEN Rejected("too many positional arguments")
                  ELSE IF param.kind = VAR_POSITIONAL
                  THEN Bound(Append(arguments,
                                    TupleOf(param.name, SubSeq(args, i, Len(args)))),
                             i + 1)
                  ELSE BindPositionalOnly(params, args, kwargs, i + 1,
                                          Append(arguments, One(param.name, args[i])))

\* The first loop of Signature._bind: positional values fill the parameters
\* left to right. "next" is the parameter the second loop starts from.
RECURSIVE BindPositional(_, _, _, _, _)
BindPositional(params, args, kwargs, i, arguments) ==
    IF i > Len(args)
    THEN IF i > Len(params) THEN Bound(arguments, i)
         ELSE LET param == params[i]
              IN  IF param.kind = VAR_POSITIONAL THEN Bound(arguments, i + 1)
                  ELSE IF HasKey(kwargs, param.name) THEN Bound(arguments, i)
                  ELSE IF param.kind = VAR_KEYWORD \/ param.default # empty
                       THEN Bound(arguments, i)
                  ELSE Rejected("missing a required argument: " \o Quote(param.name))
    ELSE IF i > Len(params) THEN Rejected("too many positional arguments")
         ELSE LET param == params[i]
              IN  IF param.kind \in {VAR_KEYWORD, KEYWORD_ONLY}
                  THEN Rejected("too many positional arguments")
                  ELSE IF param.kind = VAR_POSITIONAL
                  THEN Bound(Append(arguments,
                                    TupleOf(param.name, SubSeq(args, i, Len(args)))),
                             i + 1)
                  ELSE IF HasKey(kwargs, param.name)
                  THEN Rejected("multiple values for argument " \o Quote(param.name))
                  ELSE BindPositional(params, args, kwargs, i + 1,
                                      Append(arguments, One(param.name, args[i])))

\* The second loop of Signature._bind: keyword values fill the remaining
\* parameters by name; what is left over goes to the variadic-keyword
\* parameter, or is an error.
RECURSIVE BindKeywords(_, _, _, _, _)
BindKeywords(params, kwargs, i, arguments, kwargs_param) ==
    IF i > Len(params)
    THEN IF kwargs = <<>> THEN Bound(arguments, i)
         ELSE IF kwargs_param # empty
         THEN Bound(Append(arguments, DictOf(kwargs_param, kwargs)), i)
         ELSE Rejected("got an unexpected keyword argument " \o Quote(kwargs[1].k))
    ELSE LET param == params[i]
         IN  IF param.kind = VAR_KEYWORD
             THEN BindKeywords(params, kwargs, i + 1, arguments, param.name)
             ELSE IF param.kind = VAR_POSITIONAL
             THEN BindKeywords(params, kwargs, i + 1, arguments, kwargs_param)
             ELSE IF HasKey(kwargs, param.name)
             THEN BindKeywords(params, PopKey(kwargs, param.name), i + 1,
                               Append(arguments, One(param.name, GetKey(kwargs, param.name))),
                               kwargs_param)
             ELSE IF param.default = empty
             THEN Rejected("missing a required argument: " \o Quote(param.name))
             ELSE BindKeywords(params, kwargs, i + 1, arguments, kwargs_param)

\* The defaults of the parameters that are not among the bound arguments.
RECURSIVE Defaults(_, _, _)
Defaults(params, arguments, i) ==
    IF i > Len(params) THEN <<>>
    ELSE LET param == params[i]
             bound == \E k \in 1..Len(arguments) : arguments[k].name = param.name
         IN  (IF ~bound /\ param.default # empty
              THEN <<One(param.name, param.default)>> ELSE <<>>)
                 \o Defaults(params, arguments, i + 1)

\* bind() followed by apply_defaults(): the defaults are among the bound
\* arguments too.
BindApplyDefaults(params, args, kwargs) ==
    LET first == BindPositional(params, args, kwargs, 1, <<>>)
        bound == BindKeywords(params, kwargs, first.next, first.arguments, empty)
    IN  IF ~first.ok THEN first
        ELSE IF ~bound.ok THEN bound
        ELSE [bound EXCEPT !.arguments = bound.arguments \o Defaults(params, bound.arguments, 1)]

\* sig.bind(*args, **kwargs): the bound arguments, or the TypeError's text.
\* A parameter left to its default is not among the bound arguments.
Bind(params, args, kwargs) ==
    LET first == BindPositional(params, args, kwargs, 1, <<>>)
    IN  IF ~first.ok THEN first
        ELSE BindKeywords(params, kwargs, first.next, first.arguments, empty)

(* ------------------------- the type checker --------------------------- *)

Passed == [ok |-> TRUE, err |-> ""]

Failed(err) == [ok |-> FALSE, err |-> err]

\* Every bound value checked against the annotation itself, a collection
\* included.
ExpectedTypePlain(param) == [origin |-> "one", arg |-> param.annotation]

\* The type a bound value is checked against: Tuple[annotation, ...] for a
\* variadic-positional parameter, Dict[str, annotation] for a
\* variadic-keyword one, the annotation itself otherwise.
ExpectedType(param) ==
    IF param.kind = VAR_POSITIONAL THEN [origin |-> "tuple", arg |-> param.annotation]
    ELSE IF param.kind = VAR_KEYWORD THEN [origin |-> "dict", arg |-> param.annotation]
    ELSE [origin |-> "one", arg |-> param.annotation]

\* type(value).__name__ of a bound value.
ShapeName(value) == IF value.shape = "one" THEN TypeName(value.items[1].v) ELSE value.shape

\* The first item of a collection that is not an instance of the element type.
RECURSIVE CheckItems(_, _, _, _)
CheckItems(name, items, type, i) ==
    IF i > Len(items) THEN Passed
    ELSE IF TypeName(items[i].v) # type
    THEN Failed("type of " \o name \o items[i].path \o " must be " \o type
                \o "; got " \o TypeName(items[i].v) \o " instead")
    ELSE CheckItems(name, items, type, i + 1)

\* typeguard's check_type(name, value, expected_type): the value is of the
\* expected container type and every element is an instance of the element
\* type; keyword names are always str.
check_type(name, value, expected_type) ==
    IF expected_type.origin = "one"
    THEN IF ShapeName(value) = expected_type.arg THEN Passed
         ELSE Failed("type of " \o name \o " must be " \o expected_type.arg
                     \o "; got " \o ShapeName(value) \o " instead")
    ELSE IF value.shape # expected_type.origin
    THEN Failed("type of " \o name \o " must be a " \o expected_type.origin
                \o "; got " \o ShapeName(value) \o " instead")
    ELSE CheckItems(name, value.items, expected_type.arg, 1)

\* bound_args.signature.parameters[name]
ParamNamed(params, name) == params[CHOOSE i \in 1..Len(params) : params[i].name = name]

\* One turn of the loop of _check_type_annotations: a parameter without an
\* annotation is skipped.
CheckArgument(params, value) ==
    LET param == ParamNamed(params, value.name)
    IN  IF param.annotation = empty THEN Passed
        ELSE check_type(value.name, value, ExpectedType(param))

\* _check_type_annotations(bound_args): the first TypeError raised over the
\* bound arguments, in their order.
RECURSIVE CheckFrom(_, _, _)
CheckFrom(params, arguments, i) ==
    IF i > Len(arguments) THEN Passed
    ELSE LET r == CheckArgument(params, arguments[i])
         IN  IF ~r.ok THEN r ELSE CheckFrom(params, arguments, i + 1)

_check_type_annotations(params, arguments) == CheckFrom(params, arguments, 1)

(* --------------------------- the dispatcher --------------------------- *)

\* errors.append(f"{sig}: {err}")
ErrorLine(f, err) == SigStr(f) \o ": " \o err

\* The loop without its break: it goes on after a success, and the last
\* candidate that succeeds is the one selected.
RECURSIVE LoopLastMatch(_, _, _, _, _, _)
LoopLastMatch(candidates, args, kwargs, i, examined, errors) ==
    IF i > Len(candidates)
    THEN [selected |-> 0, examined |-> examined, errors |-> errors]
    ELSE LET f == candidates[i]
             bound_args == Bind(f.fn.params, args, kwargs)
             checked == _check_type_annotations(f.fn.params, bound_args.arguments)
             rest == LoopLastMatch(candidates, args, kwargs, i + 1, Append(examined, i), errors)
         IN  IF ~bound_args.ok
             THEN LoopLastMatch(candidates, args, kwargs, i + 1, Append(examined, i),
                                Append(errors, ErrorLine(f, bound_args.err)))
             ELSE IF ~checked.ok
             THEN LoopLastMatch(candidates, args, kwargs, i + 1, Append(examined, i),
                                Append(errors, ErrorLine(f, checked.err)))
             ELSE IF rest.selected # 0 THEN rest
             ELSE [selected |-> i, examined |-> rest.examined, errors |-> errors]

\* The loop with a bare "continue" after a failed type check: the type
\* checker's reason is not kept.
RECURSIVE LoopDropsTypeError(_, _, _, _, _, _)
LoopDropsTypeError(candidates, args, kwargs, i, examined, errors) ==
    IF i > Len(candidates)
    THEN [selected |-> 0, examined |-> examined, errors |-> errors]
    ELSE LET f == candidates[i]
             bound_args == Bind(f.fn.params, args, kwargs)
             checked == _check_type_annotations(f.fn.params, bound_args.arguments)
         IN  IF ~bound_args.ok
             THEN LoopDropsTypeError(candidates, args, kwargs, i + 1, Append(examined, i),
                                     Append(errors, ErrorLine(f, bound_args.err)))
             ELSE IF ~checked.ok
             THEN LoopDropsTypeError(candidates, args, kwargs, i + 1, Append(examined, i),
                                     errors)
             ELSE [selected |-> i, examined |-> Append(examined, i), errors |-> errors]

\* The for loop of dispatcher(): each candidate in turn is bound, then
\* type-checked; a failure of either adds a line to errors and goes on to the
\* next candidate, a success of both breaks. selected = 0 is the loop's else.
RECURSIVE Loop(_, _, _, _, _, _)
Loop(candidates, args, kwargs, i, examined, errors) ==
    IF i > Len(candidates)
    THEN [selected |-> 0, examined |-> examined, errors |-> errors]
    ELSE LET f == candidates[i]
             bound_args == Bind(f.fn.params, args, kwargs)
             checked == _check_type_annotations(f.fn.params, bound_args.arguments)
         IN  IF ~bound_args.ok
             THEN Loop(candidates, args, kwargs, i + 1, Append(examined, i),
                       Append(errors, ErrorLine(f, bound_args.err)))
             ELSE IF ~checked.ok
             THEN Loop(candidates, args, kwargs, i + 1, Append(examined, i),
                       Append(errors, ErrorLine(f, checked.err)))
             ELSE [selected |-> i, examined |-> Append(examined, i), errors |-> errors]

\* arg_repr: the reprs of the positional values, then key=repr of the
\* keyword values, joined by ", ".
ArgRepr(args, kwargs) ==
    Join(", ", args \o [i \in 1..Len(kwargs) |-> kwargs[i].k \o "=" \o kwargs[i].v])

Header == "can't dispatch the given arguments to any of the candidate functions:"

\* The lines joined by "\n" into the TypeError's message.
FailureLines(args, kwargs, errors) ==
    <<Header, "arguments: " \o ArgRepr(args, kwargs), "candidates:">> \o errors

NoException == <<>>

\* The loop with the candidate called inside the try: a TypeError the
\* candidate raises is taken for a rejection and the next candidate is tried.
RECURSIVE LoopCallsInside(_, _, _, _, _, _, _)
LoopCallsInside(candidates, args, kwargs, i, examined, errors, invoked) ==
    IF i > Len(candidates)
    THEN [selected |-> 0, examined |-> examined, errors |-> errors, invoked |-> invoked]
    ELSE LET f == candidates[i]
             bound_args == Bind(f.fn.params, args, kwargs)
             checked == _check_type_annotations(f.fn.params, bound_args.arguments)
         IN  IF ~bound_args.ok
             THEN LoopCallsInside(candidates, args, kwargs, i + 1, Append(examined, i),
                                  Append(errors, ErrorLine(f, bound_args.err)), invoked)
             ELSE IF ~checked.ok
             THEN LoopCallsInside(candidates, args, kwargs, i + 1, Append(examined, i),
                                  Append(errors, ErrorLine(f, checked.err)), invoked)
             ELSE IF f.fn.raises
             THEN LoopCallsInside(candidates, args, kwargs, i + 1, Append(examined, i),
                                  Append(errors, ErrorLine(f, "my error")),
                                  Append(invoked, i))
             ELSE [selected |-> i, examined |-> Append(examined, i), errors |-> errors,
                   invoked |-> Append(invoked, i)]

dispatcherCatches(candidates, args, kwargs) ==
    LET r == LoopCallsInside(candidates, args, kwargs, 1, <<>>, <<>>, <<>>)
        calls == [k \in 1..Len(r.invoked) |-> [args |-> args, kwargs |-> kwargs]]
    IN  IF r.selected = 0
        THEN [outcome |-> "TypeError", selected |-> 0, examined |-> r.examined,
              invoked |-> r.invoked, passed |-> calls,
              raised |-> FailureLines(args, kwargs, r.errors)]
        ELSE [outcome |-> "returned", selected |-> r.selected, examined |-> r.examined,
              invoked |-> r.invoked, passed |-> calls, raised |-> <<>>]

\* dispatcher(*args, **kwargs): what the call does. "invoked" lists the
\* candidates called with (args, kwargs); "raised" holds the lines of the
\* exception's message, if one reaches the caller.
dispatcher(candidates, args, kwargs) ==
    IF candidates = <<>>
    THEN [outcome |-> "AssertionError", selected |-> 0, examined |-> <<>>,
          invoked |-> <<>>, passed |-> <<>>, raised |-> <<"AssertionError">>]
    ELSE LET r == Loop(candidates, args, kwargs, 1, <<>>, <<>>)
         IN  IF r.selected = 0
             THEN [outcome |-> "TypeError", selected |-> 0, examined |-> r.examined,
                   invoked |-> <<>>, passed |-> <<>>,
                   raised |-> FailureLines(args, kwargs, r.errors)]
             ELSE IF candidates[r.selected].fn.raises
             THEN [outcome |-> "TypeError", selected |-> r.selected,
                   examined |-> r.examined, invoked |-> <<r.selected>>,
                   passed |-> <<[args |-> args, kwargs |-> kwargs]>>,
                   raised |-> <<"my error">>]
             ELSE [outcome |-> "returned", selected |-> r.selected,
                   examined |-> r.examined, invoked |-> <<r.selected>>,
                   passed |-> <<[args |-> args, kwargs |-> kwargs]>>,
                   raised |-> NoException]

(* ---------------------------- registration ---------------------------- *)

\* update_wrapper(dispatcher, f): the wrapper takes f's name and docstring.
update_wrapper(d, f) == [d EXCEPT !.name = f.name, !.doc = f.fn.doc]

\* _make_dispatcher(): no candidates yet; the inner function's own metadata.
_make_dispatcher == [candidates |-> <<>>, name |-> "dispatcher", doc |-> ""]

\* overload() with candidates.insert(0, f) for candidates.append(f).
overloadInFront(d, f) ==
    LET wrapped == IF d.candidates = <<>> THEN [d EXCEPT !.name = f.name, !.doc = f.fn.doc]
                   ELSE d
    IN  [wrapped EXCEPT !.candidates = <<f>> \o d.candidates]

\* overload() without its "if not candidates": every registration wraps.
overloadRewraps(d, f) ==
    [d EXCEPT !.name = f.name, !.doc = f.fn.doc, !.candidates = Append(d.candidates, f)]

\* overload(f), on the dispatcher d: the first registration wraps, every
\* registration appends.
overload(d, f) ==
    LET wrapped == IF d.candidates = <<>> THEN update_wrapper(d, f) ELSE d
    IN  [wrapped EXCEPT !.candidates = Append(d.candidates, f)]

\* What a local name can hold: nothing, None, a dispatcher (by its place in
\* the heap), an object of another kind that has an "overload" attribute, and
\* whatever that object's overload() returns.
Unbound == [tag |-> "unbound", id |-> 0]

None == [tag |-> "None", id |-> 0]

Foreign == [tag |-> "foreign", id |-> 0]

Opaque == [tag |-> "opaque", id |-> 0]

Ref(d) == [tag |-> "dispatcher", id |-> d]

Names == {"f", "_"}

\* hasattr(v, 'overload')
HasOverload(v) == v.tag \in {"dispatcher", "foreign"}

\* _auto_dispatch() returning the new dispatcher without registering f on it.
_auto_dispatch_unregistered(h, scope, f) ==
    IF scope[f.name].tag = "dispatcher"
    THEN [heap |-> [h EXCEPT ![scope[f.name].id] =
                        [@ EXCEPT !.candidates = Append(@, f)]],
          result |-> scope[f.name]]
    ELSE IF scope[f.name].tag = "foreign"
    THEN [heap |-> h, result |-> Opaque]
    ELSE [heap |-> Append(h, [candidates |-> <<>>, name |-> "dispatcher", doc |-> ""]),
          result |-> Ref(Len(h) + 1)]

\* _auto_dispatch(f): the dispatcher is the local of f's name when there is
\* one and it has an "overload" attribute, a new one otherwise; the result is
\* dispatcher.overload(f). Gives the heap afterwards and the value returned.
_auto_dispatch(h, scope, f) ==
    LET name == f.name
        found == scope[name] # Unbound /\ HasOverload(scope[name])
    IN  IF found /\ scope[name].tag = "dispatcher"
        THEN [heap |-> [h EXCEPT ![scope[name].id] = overload(h[scope[name].id], f)],
              result |-> scope[name]]
        ELSE IF found
        THEN [heap |-> h, result |-> Opaque]
        ELSE [heap |-> Append(h, overload(_make_dispatcher, f)),
              result |-> Ref(Len(h) + 1)]

(* ------------------------------ actions ------------------------------- *)

NoFunction == Function(Def(<<>>, "", FALSE), "")

NoCall ==
    [outcome |-> "none", selected |-> 0, examined |-> <<>>, invoked |-> <<>>,
     passed |-> <<>>, raised |-> NoException]

Op(op, name, f, before, after, args, kwargs, call) ==
    [op |-> op, name |-> name, f |-> f, before |-> before, after |-> after,
     args |-> args, kwargs |-> kwargs, call |-> call]

RECURSIVE Total(_)
Total(h) == IF h = <<>> THEN 0 ELSE Len(Head(h).candidates) + Total(Tail(h))

\* The functions handed to each dispatcher's overload(), a registration on
\* the dispatcher d added.
Log(d, f) ==
    IF d > Len(registered) THEN Append(registered, <<f>>)
    ELSE [registered EXCEPT ![d] = Append(registered[d], f)]

\* name = value, for a value that is no dispatcher (f = None).
Assign(name, value) ==
    /\ locals[name] # value
    /\ locals' = [locals EXCEPT ![name] = value]
    /\ last' = Op("assign", name, NoFunction, locals[name], value, <<>>, <<>>, NoCall)
    /\ UNCHANGED <<heap, registered>>

\* @signature_dispatch                (CallableModule.__call__)
\* def name(...): ...
\* The name is bound to what the decorator returns.
AutoDispatch(name, fn) ==
    LET f == Function(fn, name)
        r == _auto_dispatch(heap, locals, f)
    IN  /\ Total(heap) < MaxCands
        /\ heap' = r.heap
        /\ locals' = [locals EXCEPT ![name] = r.result]
        /\ registered' = IF r.result.tag = "dispatcher" THEN Log(r.result.id, f)
                         ELSE registered
        /\ last' = Op("auto", name, f, locals[name], r.result, <<>>, <<>>, NoCall)

\* @via.overload
\* def name(...): ...
\* for a dispatcher held by the local "via".
ExplicitOverload(via, name, fn) ==
    LET f == Function(fn, name)
        d == locals[via].id
    IN  /\ locals[via].tag = "dispatcher"
        /\ Total(heap) < MaxCands
        /\ heap' = [heap EXCEPT ![d] = overload(heap[d], f)]
        /\ locals' = [locals EXCEPT ![name] = Ref(d)]
        /\ registered' = Log(d, f)
        /\ last' = Op("overload", name, f, locals[via], Ref(d), <<>>, <<>>, NoCall)

\* name(*args, **kwargs), for a dispatcher held by the local "name".
Call(name, args, kwargs) ==
    /\ locals[name].tag = "dispatcher"
    /\ last' = Op("call", name, NoFunction, locals[name], locals[name], args, kwargs,
                  dispatcher(heap[locals[name].id].candidates, args, kwargs))
    /\ UNCHANGED <<heap, locals, registered>>

\* A frame with no locals yet, in which functions are defined and called.
Init ==
    /\ heap = <<>>
    /\ locals = [n \in Names |-> Unbound]
    /\ registered = <<>>
    /\ last = Op("init", "", NoFunction, Unbound, Unbound, <<>>, <<>>, NoCall)

ScopeArgs == { <<>>, <<"1">>, <<"1", "1">> }

Next ==
    \/ \E name \in Names, value \in {None, Foreign} : Assign(name, value)
    \/ \E name \in Names, fn \in ScopeLibrary : AutoDispatch(name, fn)
    \/ \E via \in Names, name \in Names, fn \in ScopeLibrary : ExplicitOverload(via, name, fn)
    \/ \E name \in Names, args \in ScopeArgs : Call(name, args, <<>>)

Spec == Init /\ [][Next]_vars

\* One dispatcher f, started with any definition of the library, extended
\* through f.overload and called with every argument list.
InitDispatch ==
    \E fn \in Library :
        /\ heap = <<overload(_make_dispatcher, Function(fn, "f"))>>
        /\ locals = [n \in Names |-> IF n = "f" THEN Ref(1) ELSE Unbound]
        /\ registered = << <<Function(fn, "f")>> >>
        /\ last = Op("auto", "f", Function(fn, "f"), Unbound, Ref(1), <<>>, <<>>, NoCall)

\* The definitions come first, then one call: a call changes nothing a later
\* call or registration reads, so nothing is studied after it.
NextDispatch ==
    \/ \E fn \in Library : last.op # "call" /\ ExplicitOverload("f", "_", fn)
    \/ \E args \in ArgsSet, kwargs \in KwargsSet :
          last.op # "call" /\ Call("f", args, kwargs)

SpecDispatch == InitDispatch /\ [][NextDispatch]_vars

(* ------------------------------ claims -------------------------------- *)

\* The candidates of the dispatcher the last call was made on.
Called == heap[last.before.id].candidates

\* A candidate takes a call when its signature binds the arguments and its
\* annotations accept what was bound.
Accepts(f, args, kwargs) ==
    /\ Bind(f.fn.params, args, kwargs).ok
    /\ _check_type_annotations(f.fn.params, Bind(f.fn.params, args, kwargs).arguments).ok

\* The candidates, by place, that take the last call.
Takers == { i \in 1..Len(Called) : Accepts(Called[i], last.args, last.kwargs) }

First(S) == CHOOSE i \in S : \A j \in S : i <= j

\* C1: a call examines the candidates in registration order and invokes
\* exactly the first one that both binds and type-checks: nothing registered
\* after it is examined or invoked, and no rejected candidate is invoked.
C1_FirstMatch ==
    last.op = "call" =>
        /\ last.call.examined = [i \in 1..Len(last.call.examined) |-> i]
        /\ IF Takers = {}
           THEN last.call.invoked = <<>> /\ Len(last.call.examined) = Len(Called)
           ELSE /\ last.call.invoked = <<First(Takers)>>
                /\ Len(last.call.examined) = First(Takers)

\* Two different candidates would both take the call: the first is invoked
\* and the second is not examined.
C1_Witness ==
    /\ last.op = "call"
    /\ Len(Called) = 2
    /\ Called[1] # Called[2]
    /\ Takers = {1, 2}
    /\ last.call.examined = <<1>>
    /\ last.call.invoked = <<1>>

\* The reason a candidate is rejected for: the binder's, and the type
\* checker's only when the binder has none.
Reason(f, args, kwargs) ==
    LET b == Bind(f.fn.params, args, kwargs)
    IN  IF ~b.ok THEN b.err
        ELSE _check_type_annotations(f.fn.params, b.arguments).err

\* C2: when no candidate both binds and type-checks the arguments, no
\* candidate is invoked and a single TypeError is raised whose message has,
\* after the header, the arguments line and the "candidates:" line, exactly
\* one line per candidate, in registration order, giving its signature and
\* the reason of the stage that rejected it.
C2_ExhaustionReport ==
    (last.op = "call" /\ Takers = {}) =>
        /\ last.call.outcome = "TypeError"
        /\ last.call.invoked = <<>>
        /\ Len(last.call.raised) = 3 + Len(Called)
        /\ last.call.raised[1] = Header
        /\ last.call.raised[2] = "arguments: " \o ArgRepr(last.args, last.kwargs)
        /\ last.call.raised[3] = "candidates:"
        /\ \A i \in 1..Len(Called) :
               last.call.raised[3 + i] =
                   SigStr(Called[i]) \o ": " \o Reason(Called[i], last.args, last.kwargs)

\* (a: int) then (a, b), called as f('x'): the first is rejected by the type
\* checker, the second by the binder.
C2_Witness ==
    /\ last.op = "call"
    /\ last.args = <<"'x'">>
    /\ last.kwargs = <<>>
    /\ last.call.raised =
           <<Header, "arguments: 'x'", "candidates:",
             "(a: int): type of a must be int; got str instead",
             "(a, b): missing a required argument: 'b'">>

\* C3: an error the selected candidate raises, a TypeError included, reaches
\* the caller as it is: it is not taken for a rejection, no later candidate
\* is tried, and no exhaustion report is made.
C3_CandidateErrorPropagates ==
    (last.op = "call" /\ Takers # {} /\ Called[First(Takers)].fn.raises) =>
        /\ last.call.raised = <<"my error">>
        /\ last.call.invoked = <<First(Takers)>>
        /\ Len(last.call.examined) = First(Takers)

\* The candidate that raises is followed by one that would take the same
\* arguments.
C3_Witness ==
    /\ last.op = "call"
    /\ Len(Called) = 2
    /\ Called[1].fn.raises
    /\ ~Called[2].fn.raises
    /\ Takers = {1, 2}
    /\ last.call.raised = <<"my error">>

\* C4: a dispatcher's candidates are exactly the functions registered on it,
\* in the order they were registered, after every registration and every
\* call, whatever the call's outcome.
C4_AppendOnly ==
    /\ Len(heap) = Len(registered)
    /\ \A d \in 1..Len(heap) : heap[d].candidates = registered[d]

\* A call was made on a dispatcher on which two different functions had been
\* registered.
C4_Witness ==
    /\ last.op = "call"
    /\ Len(registered[last.before.id]) = 2
    /\ registered[last.before.id][1] # registered[last.before.id][2]
    /\ last.call.outcome = "TypeError"

\* C5: a dispatcher that a local name can hold has at least one candidate, so
\* the assertion that opens a call never fails.
C5_NeverEmpty ==
    /\ \A d \in 1..Len(heap) : heap[d].candidates # <<>>
    /\ last.call.outcome # "AssertionError"

\* A call was made on a dispatcher started by the decorator a moment before.
C5_Witness ==
    /\ last.op = "call"
    /\ Len(Called) = 1
    /\ last.call.outcome = "returned"

\* C6: the dispatcher's name and docstring are those of the first function
\* registered on it, after any number of registrations.
C6_FirstMetadata ==
    \A d \in 1..Len(heap) :
        registered[d] # <<>> =>
            /\ heap[d].doc = registered[d][1].fn.doc
            /\ heap[d].name = registered[d][1].name

\* A second function, with a docstring and a name of its own, was registered
\* after the first.
C6_Witness ==
    \E d \in 1..Len(heap) :
        /\ Len(registered[d]) = 2
        /\ registered[d][2].fn.doc # registered[d][1].fn.doc
        /\ registered[d][2].name # registered[d][1].name
        /\ heap[d].doc = "a"

\* C8: decorating a function named n appends it to the dispatcher n is bound
\* to, as n.overload would, and starts a dispatcher with this one candidate
\* when n is unbound or bound to something that is not a dispatcher.
C8_ImplicitIsExplicit ==
    last.op = "auto" =>
        IF last.before.tag = "dispatcher"
        THEN /\ last.after = last.before
             /\ locals[last.name] = last.before
             /\ registered[last.before.id][Len(registered[last.before.id])] = last.f
        ELSE /\ last.after.tag = "dispatcher"
             /\ locals[last.name] = last.after
             /\ heap[last.after.id].candidates = <<last.f>>

\* What the same dispatcher does when the one positional value of the last
\* call is passed by the name "a" instead.
ByName == dispatcher(Called, <<>>, <<KV("a", last.args[1])>>)

Positional == last.op = "call" /\ Len(last.args) = 1 /\ last.kwargs = <<>>

\* C7, as claimed: f(v) and f(a=v) select the same candidate whenever both
\* calls dispatch.
C7_SameCandidate ==
    (Positional /\ last.call.selected # 0 /\ ByName.selected # 0) =>
        ByName.selected = last.call.selected

\* "a" is the first parameter of every candidate, and may be passed either
\* way.
FirstIsA ==
    \A i \in 1..Len(Called) :
        /\ Called[i].fn.params[1].name = "a"
        /\ Called[i].fn.params[1].kind = POSITIONAL_OR_KEYWORD

\* C7, amended: when "a" is the first parameter of every candidate and is
\* positional-or-keyword, f(v) and f(a=v) select the same candidate, or both
\* fail to dispatch.
C7_SameCandidateWhenFirstIsA ==
    (Positional /\ FirstIsA) => ByName.selected = last.call.selected

\* The first candidate rejects the value both ways, the second takes it both
\* ways.
C7_Witness ==
    /\ Positional
    /\ FirstIsA
    /\ Len(Called) = 2
    /\ last.call.selected = 2
    /\ ByName.selected = 2

\* A bound value satisfies its parameter's declared type: every element of a
\* variadic-positional collection is of the type, every value of a
\* variadic-keyword collection is, the one value otherwise is; a parameter
\* without a declared type is satisfied by anything.
Satisfied(params, value) ==
    \/ ParamNamed(params, value.name).annotation = empty
    \/ \A i \in 1..Len(value.items) :
           TypeName(value.items[i].v) = ParamNamed(params, value.name).annotation

AllSatisfied(f, args, kwargs) ==
    LET arguments == Bind(f.fn.params, args, kwargs).arguments
    IN  \A i \in 1..Len(arguments) : Satisfied(f.fn.params, arguments[i])

\* C9: a candidate that binds the arguments passes the type checker exactly
\* when every bound parameter with a declared type is satisfied, so an
\* examined candidate that binds is the one selected if and only if its
\* bound values are all satisfied; an empty variadic collection passes.
C9_TypeCheckerIff ==
    last.op = "call" =>
        \A k \in 1..Len(last.call.examined) :
            LET i == last.call.examined[k]
            IN  Bind(Called[i].fn.params, last.args, last.kwargs).ok =>
                    /\ _check_type_annotations(
                           Called[i].fn.params,
                           Bind(Called[i].fn.params, last.args, last.kwargs).arguments).ok
                       <=> AllSatisfied(Called[i], last.args, last.kwargs)
                    /\ last.call.selected = i
                       <=> AllSatisfied(Called[i], last.args, last.kwargs)

\* (*a: int) then (*a: str), called with no arguments, selects the first.
C9_Witness ==
    /\ last.op = "call"
    /\ last.args = <<>>
    /\ last.kwargs = <<>>
    /\ Len(Called) = 2
    /\ Called[1].fn = F_var_int
    /\ Called[2].fn = F_var_str
    /\ last.call.selected = 1

\* The parameters of f the call gives no value: those past the positional
\* values that no keyword names, variadic ones aside.
LeftToDefault(f, args, kwargs) ==
    { i \in 1..Len(f.fn.params) :
        /\ f.fn.params[i].default # empty
        /\ i > Len(args)
        /\ ~HasKey(kwargs, f.fn.params[i].name) }

\* The values the call itself gives to parameters with a declared type are
\* of that type.
GivenSatisfied(f, args, kwargs) ==
    \A i \in 1..Len(f.fn.params) :
        LET param == f.fn.params[i]
        IN  param.annotation # empty =>
                /\ (param.kind = POSITIONAL_OR_KEYWORD /\ i <= Len(args))
                       => TypeName(args[i]) = param.annotation
                /\ (param.kind \in {POSITIONAL_OR_KEYWORD, KEYWORD_ONLY}
                    /\ HasKey(kwargs, param.name))
                       => TypeName(GetKey(kwargs, param.name)) = param.annotation

\* C10: a parameter the call leaves to its default is not type-checked: the
\* first candidate takes a call that binds and gives it values of the
\* declared types, whatever its defaults are, and is invoked with the
\* arguments of the call, without the defaults.
C10_DefaultsUnchecked ==
    (/\ last.op = "call"
     /\ LeftToDefault(Called[1], last.args, last.kwargs) # {}
     /\ Bind(Called[1].fn.params, last.args, last.kwargs).ok
     /\ GivenSatisfied(Called[1], last.args, last.kwargs)) =>
        /\ last.call.invoked = <<1>>
        /\ last.call.passed = <<[args |-> last.args, kwargs |-> last.kwargs]>>

\* (a: int = 'x') called with no arguments: selected, and invoked with no
\* arguments, though 'x' is not an int.
C10_Witness ==
    /\ last.op = "call"
    /\ Called[1].fn = F_int_default
    /\ TypeName(Called[1].fn.params[1].default) # Called[1].fn.params[1].annotation
    /\ last.args = <<>>
    /\ last.kwargs = <<>>
    /\ last.call.invoked = <<1>>
    /\ last.call.passed = <<[args |-> <<>>, kwargs |-> <<>>]>>

====
